---- MODULE Spec2Model ----
(***************************************************************************)
(* A model of the data pipeline of lightning-flash (flash/data/batch.py):  *)
(* _Sequential, _PreProcessor, _PostProcessor and default_uncollate, and   *)
(* of the constructors / forward passes of TabularClassifier and           *)
(* ImageEmbedder.                                                          *)
(*                                                                         *)
(* Python values are tagged records:                                       *)
(*   tensor     [kind, shape, data]     data is the row-major element list *)
(*   mapping    [kind, mtype, keys, vals]                                  *)
(*   namedtuple [kind, ntype, fields, elems]                               *)
(*   list       [kind, items]                                              *)
(*   tuple      [kind, titems]                                             *)
(*   str        [kind, chars]                                              *)
(*   int        [kind, n]                                                  *)
(*   None       [kind]                                                     *)
(* and an exception leaving a call is the value [kind |-> "raised", exc].  *)
(***************************************************************************)
EXTENDS Integers, Sequences, FiniteSets, TLC

VARIABLES obj, op, inp, out, calls, pred0

vars == <<obj, op, inp, out, calls, pred0>>

\* ------------------------------------------------------------------ bounds

\* Largest number of samples in one call / one batch.
MaxBatch == 2

\* Largest number of (num_classes, emb_dim) pairs in embedding_sizes.
MaxEmb == 2

\* Element values of the input tensors.
Vals == {0, 1}

\* ------------------------------------------------------------------ values

Tensor(shape, data) == [kind |-> "tensor", shape |-> shape, data |-> data]

Mapping(mtype, keys, vals) ==
    [kind |-> "mapping", mtype |-> mtype, keys |-> keys, vals |-> vals]

NamedTuple(ntype, fields, elems) ==
    [kind |-> "namedtuple", ntype |-> ntype, fields |-> fields, elems |-> elems]

List(items) == [kind |-> "list", items |-> items]

Tuple(titems) == [kind |-> "tuple", titems |-> titems]

Str(chars) == [kind |-> "str", chars |-> chars]

IntLeaf(n) == [kind |-> "int", n |-> n]

None == [kind |-> "none"]

Raised(exc) == [kind |-> "raised", exc |-> exc]

IsRaised(v) == v.kind = "raised"

\* The first exception among the values of sequence s (Python evaluates a
\* comprehension left to right and stops at the first exception).
FirstRaised(s) ==
    s[CHOOSE i \in 1..Len(s) : IsRaised(s[i]) /\ \A j \in 1..(i - 1) : ~IsRaised(s[j])]

AnyRaised(s) == \E i \in 1..Len(s) : IsRaised(s[i])

Min(S) == CHOOSE m \in S : \A k \in S : m <= k

RECURSIVE Numel(_)
Numel(shape) == IF shape = <<>> THEN 1 ELSE Head(shape) * Numel(Tail(shape))

\* ------------------------------------------------------------ torch calls

\* Mutant of torch_unbind: the slices along the last dimension instead of the
\* first.
torch_unbind_last_dim(t) ==
    IF t.shape = <<>>
    THEN Raised("RuntimeError")
    ELSE LET w == t.shape[Len(t.shape)]
             outer == Len(t.data) \div w
         IN List([j \in 1..w |->
                    Tensor(SubSeq(t.shape, 1, Len(t.shape) - 1),
                           [i \in 1..outer |-> t.data[(i - 1) * w + j]])])

\* torch.unbind(t, 0): the slices of t along its first dimension.
torch_unbind(t) ==
    IF t.shape = <<>>
    THEN Raised("RuntimeError")
    ELSE LET rest == Tail(t.shape)
             stride == Numel(rest)
         IN List([i \in 1..Head(t.shape) |->
                    Tensor(rest, SubSeq(t.data, (i - 1) * stride + 1, i * stride))])

RECURSIVE Concat(_)
Concat(ss) == IF ss = <<>> THEN <<>> ELSE Head(ss) \o Concat(Tail(ss))

\* torch.stack(samples): a new first dimension over equally shaped tensors.
torch_stack(samples) ==
    IF \/ samples = <<>>
       \/ \E i \in 1..Len(samples) :
             \/ samples[i].kind # "tensor"
             \/ samples[i].shape # samples[1].shape
    THEN Raised("RuntimeError")
    ELSE Tensor(<<Len(samples)>> \o samples[1].shape,
                Concat([i \in 1..Len(samples) |-> samples[i].data]))

\* iter(v): the values a Python for loop (or zip) draws from v.
Iter(v) ==
    CASE v.kind = "tensor" ->
            IF v.shape = <<>> THEN Raised("TypeError") ELSE torch_unbind(v)
      [] v.kind = "mapping" -> List([i \in 1..Len(v.keys) |-> Str(v.keys[i])])
      [] v.kind = "namedtuple" -> List(v.elems)
      [] v.kind = "list" -> List(v.items)
      [] v.kind = "tuple" -> List(v.titems)
      [] v.kind = "str" -> List([i \in 1..Len(v.chars) |-> Str(<<v.chars[i]>>)])
      [] OTHER -> Raised("TypeError")

\* zip(*values): the tuples of i-th entries, as many as the shortest value has.
ZipStar(values) ==
    LET its == [k \in 1..Len(values) |-> Iter(values[k])]
    IN IF AnyRaised(its) THEN FirstRaised(its)
       ELSE IF values = <<>> THEN List(<<>>)
       ELSE LET n == Min({Len(its[k].items) : k \in 1..Len(values)})
            IN List([i \in 1..n |->
                       Tuple([k \in 1..Len(values) |-> its[k].items[i]])])

\* ------------------------------------------------------ default_uncollate

RECURSIVE default_uncollate(_)
default_uncollate(batch) ==
    CASE batch.kind = "tensor" -> torch_unbind(batch)
      [] batch.kind = "mapping" ->
            LET z == ZipStar(batch.vals)
            IN IF IsRaised(z) THEN z
               ELSE LET us == [i \in 1..Len(z.items) |-> default_uncollate(z.items[i])]
                    IN IF AnyRaised(us) THEN FirstRaised(us)
                       ELSE List([i \in 1..Len(us) |->
                                    Mapping(batch.mtype, batch.keys, us[i].items)])
      [] batch.kind = "namedtuple" ->
            LET z == ZipStar(batch.elems)
            IN IF IsRaised(z) THEN z
               ELSE LET us == [i \in 1..Len(z.items) |-> default_uncollate(z.items[i])]
                    IN IF AnyRaised(us) THEN FirstRaised(us)
                       ELSE List([i \in 1..Len(us) |->
                                    NamedTuple(batch.ntype, batch.fields, us[i].items)])
      [] batch.kind \in {"list", "tuple"} ->
            LET its == IF batch.kind = "list" THEN batch.items ELSE batch.titems
                us == [i \in 1..Len(its) |-> default_uncollate(its[i])]
            IN IF AnyRaised(us) THEN FirstRaised(us) ELSE List(us)
      [] OTHER -> batch

\* ---------------------------------------------------------- user callables

\* The user-supplied transforms are inputs of the model: each is one of these
\* deterministic functions, applied to every number of the value it is given.
Fns == {"id", "inc", "dbl"}

FnOnInt(f, n) == IF f = "inc" THEN n + 1 ELSE IF f = "dbl" THEN 2 * n ELSE n

RECURSIVE MapInts(_, _)
MapInts(f, v) ==
    CASE v.kind = "tensor" ->
            Tensor(v.shape, [i \in 1..Len(v.data) |-> FnOnInt(f, v.data[i])])
      [] v.kind = "int" -> IntLeaf(FnOnInt(f, v.n))
      [] v.kind = "list" -> List([i \in 1..Len(v.items) |-> MapInts(f, v.items[i])])
      [] v.kind = "tuple" -> Tuple([i \in 1..Len(v.titems) |-> MapInts(f, v.titems[i])])
      [] v.kind = "mapping" ->
            Mapping(v.mtype, v.keys, [i \in 1..Len(v.vals) |-> MapInts(f, v.vals[i])])
      [] v.kind = "namedtuple" ->
            NamedTuple(v.ntype, v.fields, [i \in 1..Len(v.elems) |-> MapInts(f, v.elems[i])])
      [] OTHER -> v

\* A to_tensor_transform: numbers and lists of numbers become tensors, anything
\* else is left as it is.
ToTensor(v) ==
    CASE v.kind = "int" -> Tensor(<<>>, <<v.n>>)
      [] v.kind = "list" /\ \A i \in 1..Len(v.items) : v.items[i].kind = "int" ->
            Tensor(<<Len(v.items)>>, [i \in 1..Len(v.items) |-> v.items[i].n])
      [] OTHER -> v

ApplyFn(f, v) == IF f = "to_tensor" THEN ToTensor(v) ELSE MapInts(f, v)

\* One entry of the call log: callable slot, argument, returned value.
Call(fn, arg, ret) == [fn |-> fn, arg |-> arg, ret |-> ret]

\* flash.data.utils.convert_to_modules wraps callables as modules: None and
\* non-callables come back unchanged and a wrapped callable computes what the
\* callable computes, so on the model's values it changes nothing.
convert_to_modules(x) == x

\* flash.data.utils._contains_any_tensor: whether a tensor occurs in the value.
RECURSIVE contains_any_tensor(_)
contains_any_tensor(v) ==
    CASE v.kind = "tensor" -> TRUE
      [] v.kind = "list" -> \E i \in 1..Len(v.items) : contains_any_tensor(v.items[i])
      [] v.kind = "tuple" -> \E i \in 1..Len(v.titems) : contains_any_tensor(v.titems[i])
      [] v.kind = "mapping" -> \E i \in 1..Len(v.vals) : contains_any_tensor(v.vals[i])
      [] OTHER -> FALSE

\* -------------------------------------------------------------- _Sequential

Sequential_init(pre_tensor_transform, to_tensor_transform, post_tensor_transform, assert_contains_tensor) ==
    [kind |-> "_Sequential",
     pre_tensor_transform |-> convert_to_modules(pre_tensor_transform),
     to_tensor_transform |-> convert_to_modules(to_tensor_transform),
     post_tensor_transform |-> convert_to_modules(post_tensor_transform),
     assert_contains_tensor |-> assert_contains_tensor]

\* Mutant of Sequential_forward: to_tensor_transform runs before
\* pre_tensor_transform.
Sequential_forward_to_tensor_first(self, sample) ==
    LET s1 == ApplyFn(self.to_tensor_transform, sample)
        s2 == ApplyFn(self.pre_tensor_transform, s1)
        s3 == ApplyFn(self.post_tensor_transform, s2)
    IN [out |-> s3,
        calls |-> <<Call("to_tensor_transform", sample, s1),
                    Call("pre_tensor_transform", s1, s2),
                    Call("post_tensor_transform", s2, s3)>>]

\* Mutant of Sequential_forward: the tensor assertion is never made.
Sequential_forward_no_assert(self, sample) ==
    LET s1 == ApplyFn(self.pre_tensor_transform, sample)
        s2 == ApplyFn(self.to_tensor_transform, s1)
        s3 == ApplyFn(self.post_tensor_transform, s2)
    IN [out |-> s3,
        calls |-> <<Call("pre_tensor_transform", sample, s1),
                    Call("to_tensor_transform", s1, s2),
                    Call("post_tensor_transform", s2, s3)>>]

Sequential_forward(self, sample) ==
    LET s1 == ApplyFn(self.pre_tensor_transform, sample)
        s2 == ApplyFn(self.to_tensor_transform, s1)
        s3 == ApplyFn(self.post_tensor_transform, s2)
        c1 == Call("pre_tensor_transform", sample, s1)
        c2 == Call("to_tensor_transform", s1, s2)
        c3 == Call("post_tensor_transform", s2, s3)
    IN IF self.assert_contains_tensor /\ ~contains_any_tensor(s2)
       THEN [out |-> Raised("MisconfigurationException"), calls |-> <<c1, c2>>]
       ELSE [out |-> s3, calls |-> <<c1, c2, c3>>]

\* ------------------------------------------------------------ _PreProcessor

\* The collate_fn choices: stacking along a new first dimension, or keeping
\* the list of samples as the batch.
CollateFns == {"stack", "as_list"}

ApplyCollate(f, samples) ==
    IF f = "stack" THEN torch_stack(samples.items) ELSE samples

PreProcessor_init(collate_fn, per_sample_transform, per_batch_transform, apply_per_sample_transform) ==
    [kind |-> "_PreProcessor",
     collate_fn |-> convert_to_modules(collate_fn),
     per_sample_transform |-> convert_to_modules(per_sample_transform),
     per_batch_transform |-> convert_to_modules(per_batch_transform),
     apply_per_sample_transform |-> apply_per_sample_transform]

\* [self.per_sample_transform(sample) for sample in samples], as call log.
PerSampleCalls(f, items) ==
    [i \in 1..Len(items) |->
        LET r == ApplyFn(f, items[i]) IN Call("per_sample_transform", items[i], r)]

\* The values the logged calls returned, in order.
Rets(cs) == [i \in 1..Len(cs) |-> cs[i].ret]

\* samples = self.per_batch_transform(samples); return samples
PerBatchReturn(cs, batch, res) ==
    [out |-> res, calls |-> Append(cs, Call("per_batch_transform", batch, res))]

PreProcessor_per_batch(self, cs, batch) ==
    PerBatchReturn(cs, batch, ApplyFn(self.per_batch_transform, batch))

\* Mutant of PreProcessor_collated: the collated batch is returned without
\* the per-batch transform.
PreProcessor_collated_no_per_batch(self, cs, lst, col) ==
    [out |-> col, calls |-> Append(cs, Call("collate_fn", lst, col))]

\* after samples = self.collate_fn(samples)
PreProcessor_collated(self, cs, lst, col) ==
    IF IsRaised(col)
    THEN [out |-> col, calls |-> Append(cs, Call("collate_fn", lst, col))]
    ELSE PreProcessor_per_batch(self, Append(cs, Call("collate_fn", lst, col)), col)

\* samples = type(samples)(samples); samples = self.collate_fn(samples)
PreProcessor_collate(self, cs, lst) ==
    PreProcessor_collated(self, cs, lst, ApplyCollate(self.collate_fn, lst))

PreProcessor_per_sample(self, it) ==
    IF IsRaised(it) THEN [out |-> it, calls |-> <<>>]
    ELSE PreProcessor_collate(self, PerSampleCalls(self.per_sample_transform, it.items),
                              List(Rets(PerSampleCalls(self.per_sample_transform, it.items))))

\* Mutant of PreProcessor_forward: apply_per_sample_transform is not looked
\* at, the per-sample transform and the collation always run.
PreProcessor_forward_always_per_sample(self, samples) ==
    PreProcessor_per_sample(self, Iter(samples))

PreProcessor_forward(self, samples) ==
    IF self.apply_per_sample_transform
    THEN PreProcessor_per_sample(self, Iter(samples))
    ELSE PreProcessor_per_batch(self, <<>>, samples)

\* ----------------------------------------------------------- _PostProcessor

\* The uncollate_fn choices: default_uncollate, or a user function that
\* returns the whole batch as the only sample.
UncollateFns == {"default_uncollate", "single"}

ApplyUncollate(f, batch) ==
    IF f = "default_uncollate" THEN default_uncollate(batch) ELSE List(<<batch>>)

PostProcessor_init(uncollate_fn, per_batch_transform, per_sample_transform, save_fn, save_per_sample) ==
    [kind |-> "_PostProcessor",
     uncollate_fn |-> convert_to_modules(uncollate_fn),
     per_batch_transform |-> convert_to_modules(per_batch_transform),
     per_sample_transform |-> convert_to_modules(per_sample_transform),
     save_fn |-> convert_to_modules(save_fn),
     save_per_sample |-> convert_to_modules(save_per_sample)]

\* type(uncollated)(preds): the sequence type of the uncollated value, rebuilt
\* from the list of per-sample results.
TypeOf(uncollated, preds) ==
    CASE uncollated.kind = "list" -> List(preds)
      [] uncollated.kind = "tuple" -> Tuple(preds)
      [] OTHER -> Raised("TypeError")

\* Mutant of PostProcessor_save: the predictions are returned after they
\* were saved.
PostProcessor_save_and_return(self, done, rets, final_preds) ==
    IF IsRaised(final_preds) THEN [out |-> final_preds, calls |-> done]
    ELSE IF self.save_fn # None
    THEN IF self.save_per_sample
         THEN [out |-> final_preds,
               calls |-> done \o [i \in 1..Len(rets) |-> Call("save_fn", rets[i], None)]]
         ELSE [out |-> final_preds,
               calls |-> Append(done, Call("save_fn", final_preds, None))]
    ELSE [out |-> final_preds, calls |-> done]

\* if self.save_fn: ... else: return final_preds
PostProcessor_save(self, done, rets, final_preds) ==
    IF IsRaised(final_preds) THEN [out |-> final_preds, calls |-> done]
    ELSE IF self.save_fn # None
    THEN IF self.save_per_sample
         THEN [out |-> None,
               calls |-> done \o [i \in 1..Len(rets) |-> Call("save_fn", rets[i], None)]]
         ELSE [out |-> None, calls |-> Append(done, Call("save_fn", final_preds, None))]
    ELSE [out |-> final_preds, calls |-> done]

\* Mutant of PostProcessor_final_preds: the per-sample results are returned
\* in reverse order.
PostProcessor_final_preds_reversed(self, cs, uncollated, ps) ==
    PostProcessor_save(self, cs \o ps, Rets(ps),
                       TypeOf(uncollated,
                              [i \in 1..Len(ps) |-> ps[Len(ps) + 1 - i].ret]))

\* final_preds = type(uncollated)([...])
PostProcessor_final_preds(self, cs, uncollated, ps) ==
    PostProcessor_save(self, cs \o ps, Rets(ps), TypeOf(uncollated, Rets(ps)))

\* [self.per_sample_transform(sample) for sample in uncollated]
PostProcessor_per_sample(self, cs, uncollated, it) ==
    IF IsRaised(it) THEN [out |-> it, calls |-> cs]
    ELSE PostProcessor_final_preds(self, cs, uncollated,
                                   PerSampleCalls(self.per_sample_transform, it.items))

\* after uncollated = self.uncollate_fn(...)
PostProcessor_uncollated(self, c1, b1, uncollated) ==
    IF IsRaised(uncollated)
    THEN [out |-> uncollated, calls |-> <<c1, Call("uncollate_fn", b1, uncollated)>>]
    ELSE PostProcessor_per_sample(self, <<c1, Call("uncollate_fn", b1, uncollated)>>,
                                  uncollated, Iter(uncollated))

\* Mutant of PostProcessor_per_batch: the batch is uncollated as it came,
\* not as per_batch_transform returned it.
PostProcessor_per_batch_ignored(self, batch, b1) ==
    PostProcessor_uncollated(self, Call("per_batch_transform", batch, b1), batch,
                             ApplyUncollate(self.uncollate_fn, batch))

\* after self.per_batch_transform(batch)
PostProcessor_per_batch(self, batch, b1) ==
    PostProcessor_uncollated(self, Call("per_batch_transform", batch, b1), b1,
                             ApplyUncollate(self.uncollate_fn, b1))

PostProcessor_forward(self, batch) ==
    PostProcessor_per_batch(self, batch, ApplyFn(self.per_batch_transform, batch))

\* ------------------------------------------------------- TabularClassifier

\* len(x) of a Python value.
PyLen(v) ==
    CASE v.kind = "list" -> IntLeaf(Len(v.items))
      [] v.kind = "tuple" -> IntLeaf(Len(v.titems))
      [] OTHER -> Raised("TypeError")

\* list(range(n))
RangeList(n) == List([i \in 1..n |-> IntLeaf(i - 1)])

\* pytorch_tabnet's TabNet(...) as the record of the arguments it is given.
TabNet(input_dim, output_dim, cat_idxs, cat_dims, cat_emb_dim) ==
    [input_dim |-> input_dim, output_dim |-> output_dim, cat_idxs |-> cat_idxs,
     cat_dims |-> cat_dims, cat_emb_dim |-> cat_emb_dim]

TabularClassifier_init(num_features, num_classes, embedding_sizes) ==
    LET n == PyLen(embedding_sizes)
    IN IF IsRaised(n) THEN n
       ELSE
       LET unz == IF n.n # 0 THEN ZipStar(embedding_sizes.items)
                  ELSE List(<<List(<<>>), List(<<>>)>>)
       IN IF IsRaised(unz) THEN unz
          ELSE IF Len(unz.items) # 2 THEN Raised("ValueError")
          ELSE LET cat_dims == unz.items[1]
                   cat_emb_dim == unz.items[2]
               IN [kind |-> "TabularClassifier",
                   model |-> TabNet(num_features, num_classes, RangeList(n.n),
                                    Iter(cat_dims), Iter(cat_emb_dim))]

\* ------------------------------------------------------------ ImageEmbedder

\* Number of features (channels) the model's backbones produce.
NumFeatures == 2

Max2(a, b) == IF a >= b THEN a ELSE b

RECURSIVE SeqMax(_)
SeqMax(s) == IF Len(s) = 1 THEN s[1] ELSE Max2(Head(s), SeqMax(Tail(s)))

RECURSIVE SeqSum(_)
SeqSum(s) == IF s = <<>> THEN 0 ELSE Head(s) + SeqSum(Tail(s))

\* pooling_fn(x, dim=-1) (the values, for torch.max): the last dimension is
\* reduced. The mean is exact on the model's inputs, whose elements are
\* multiples of the number of pooled elements.
ReduceLast(pooling_fn, x) ==
    LET w == x.shape[Len(x.shape)]
        m == Len(x.data) \div w
        grp(i) == SubSeq(x.data, (i - 1) * w + 1, i * w)
    IN Tensor(SubSeq(x.shape, 1, Len(x.shape) - 1),
              [i \in 1..m |-> IF pooling_fn = "max" THEN SeqMax(grp(i))
                              ELSE SeqSum(grp(i)) \div w])

apply_pool(self, x) == ReduceLast(self.pooling_fn, ReduceLast(self.pooling_fn, x))

\* The backbones: "conv" returns a 4-dimensional feature map, "flat" pools it
\* itself and returns 2-dimensional features, "ssl" returns a tuple whose last
\* element is the feature map.
Backbones == {"conv", "flat", "ssl"}

ApplyBackbone(b, x) ==
    CASE b = "conv" -> x
      [] b = "flat" -> ReduceLast("max", ReduceLast("max", x))
      [] OTHER -> Tuple(<<MapInts("inc", x), x>>)

\* nn.Linear's weight for output j and input c, under one of two
\* initialisations (seed).
LinearWeight(seed, j, c) == 1 + ((j + c + seed) % 2)

\* nn.Sequential(nn.Flatten(), nn.Linear(num_features, embedding_dim))
FlattenLinear(seed, num_features, embedding_dim, x) ==
    LET b == x.shape[1]
        f == Len(x.data) \div b
    IN IF f # num_features THEN Raised("RuntimeError")
       ELSE Tensor(<<b, embedding_dim>>,
                   [k \in 1..(b * embedding_dim) |->
                      LET r == (k - 1) \div embedding_dim
                          j == (k - 1) % embedding_dim
                      IN SeqSum([c \in 1..f |->
                                   LinearWeight(seed, j, c) * x.data[r * f + c]])])

ImageEmbedder_init(embedding_dim, backbone, pooling_fn, seed) ==
    [kind |-> "ImageEmbedder",
     backbone |-> backbone,
     embedding_dim |-> embedding_dim,
     pooling_fn |-> pooling_fn,
     head |-> IF embedding_dim = None THEN [identity |-> TRUE]
              ELSE [identity |-> FALSE, seed |-> seed,
                    in_features |-> NumFeatures, out_features |-> embedding_dim.n]]

ApplyHead(head, x) ==
    IF head.identity THEN x
    ELSE FlattenLinear(head.seed, head.in_features, head.out_features, x)

\* Python truth of an Optional[int].
Truthy(v) == v.kind = "int" /\ v.n # 0

\* x = self.head(x); return x
ImageEmbedder_head(self, cs, x3, x4) ==
    [out |-> x4, calls |-> Append(cs, Call("head", x3, x4))]

\* after x = self.apply_pool(x)
ImageEmbedder_pooled(self, cs, x2, x3) ==
    ImageEmbedder_head(self, Append(cs, Call("apply_pool", x2, x3)), x3,
                       ApplyHead(self.head, x3))

\* if x.dim() == 4 and self.embedding_dim: x = self.apply_pool(x)
ImageEmbedder_pool(self, cs, x2) ==
    IF Len(x2.shape) = 4 /\ Truthy(self.embedding_dim)
    THEN ImageEmbedder_pooled(self, cs, x2, apply_pool(self, x2))
    ELSE ImageEmbedder_head(self, cs, x2, ApplyHead(self.head, x2))

\* if isinstance(x, tuple): x = x[-1]
ImageEmbedder_last(self, x, x1) ==
    ImageEmbedder_pool(self, <<Call("backbone", x, x1)>>,
                       IF x1.kind = "tuple" THEN x1.titems[Len(x1.titems)] ELSE x1)

ImageEmbedder_forward(self, x) ==
    ImageEmbedder_last(self, x, ApplyBackbone(self.backbone, x))

\* --------------------------------------------------------------------- Task

\* The model of a task maps a batch to predictions row by row: "id" returns
\* the batch, "rowsum" the sum of each row.
ModelFns == {"id", "rowsum"}

ApplyModel(m, batch) ==
    IF batch.kind # "tensor" \/ batch.shape = <<>> THEN Raised("TypeError")
    ELSE IF m = "id" THEN batch
    ELSE LET n == batch.shape[1]
             stride == Len(batch.data) \div n
         IN Tensor(<<n>>, [i \in 1..n |->
                             SeqSum(SubSeq(batch.data, (i - 1) * stride + 1, i * stride))])

Task_init(preprocessor, model, postprocessor) ==
    [kind |-> "Task", preprocessor |-> preprocessor, model |-> model,
     postprocessor |-> postprocessor]

\* Task.predict: pre-process the samples, run the model on the batch,
\* post-process the model's output.
Task_postprocess(cs, post) == [out |-> post.out, calls |-> cs \o post.calls]

Task_model(self, pre, y) ==
    IF IsRaised(y) THEN [out |-> y, calls |-> Append(pre.calls, Call("model", pre.out, y))]
    ELSE Task_postprocess(Append(pre.calls, Call("model", pre.out, y)),
                          PostProcessor_forward(self.postprocessor, y))

Task_preprocessed(self, pre) ==
    IF IsRaised(pre.out) THEN pre
    ELSE Task_model(self, pre, ApplyModel(self.model, pre.out))

Task_predict(self, samples) ==
    Task_preprocessed(self, PreProcessor_forward(self.preprocessor, samples))

\* ------------------------------------------------------------------ inputs

Scalars == {Tensor(<<>>, <<v>>) : v \in Vals}

Vectors == {Tensor(<<2>>, <<v, 1 - v>>) : v \in Vals}

SeqsOver(S, lo, hi) == UNION {[1..n -> S] : n \in lo..hi}

\* Sequences of equally shaped tensor samples.
SampleSeqs(lo) == SeqsOver(Scalars, lo, MaxBatch) \cup SeqsOver(Vectors, lo, MaxBatch)

\* Tensor batches: what stacking a non-empty sequence of samples gives.
TensorBatches == {torch_stack(ss) : ss \in SampleSeqs(1)}

\* What _Sequential is given: numbers, lists of numbers, tensors and a string.
RawSamples ==
    Scalars \cup Vectors \cup {IntLeaf(v) : v \in Vals}
    \cup {List(<<IntLeaf(a), IntLeaf(b)>>) : a \in Vals, b \in Vals}
    \cup {Str(<<"a", "b">>)}

\* Columns of n entries: stacked scalars, stacked vectors, lists of n numbers.
TensorCols(n) ==
    {torch_stack(ss) : ss \in [1..n -> Scalars]} \cup {torch_stack(ss) : ss \in [1..n -> Vectors]}

IntCols(n) == {List([i \in 1..n |-> IntLeaf(f[i])]) : f \in [1..n -> Vals]}

\* Mapping batches whose values each hold the same number of entries.
MappingBatches ==
    {Mapping("dict", <<>>, <<>>)}
    \cup UNION {{Mapping("dict", <<"x">>, <<c>>) : c \in TensorCols(n) \cup IntCols(n)}
                : n \in 1..MaxBatch}
    \cup UNION {{Mapping("OrderedDict", <<"x", "y">>, <<c, d>>) :
                    c \in {torch_stack(ss) : ss \in [1..n -> Vectors]},
                    d \in {List([i \in 1..n |-> IntLeaf(i)])}}
                : n \in 1..MaxBatch}

\* The fields of a two-field batch: a column of n tensors or numbers, and a
\* column of n numbers.
FieldPairs ==
    UNION {{<<c, d>> : c \in TensorCols(n) \cup IntCols(n),
                       d \in {List([i \in 1..n |-> IntLeaf(i)])}}
           : n \in 1..MaxBatch}

\* Named-tuple batches, and the plain tuples holding the same fields.
NamedTupleBatches == {NamedTuple("Batch", <<"x", "y">>, fs) : fs \in FieldPairs}

TupleBatches == {Tuple(fs) : fs \in FieldPairs}

\* Nested batches with string and number leaves: bare leaves, strings inside
\* (nested) lists, and strings held directly as a mapping value or as a
\* named-tuple field.
NestedBatches ==
    {Str(<<"a", "b">>), IntLeaf(1),
     List(<<Str(<<"a", "b">>), Str(<<"c">>)>>),
     List(<<List(<<IntLeaf(0), Str(<<"a", "b">>)>>), List(<<>>)>>),
     Mapping("dict", <<"x">>, <<List(<<Str(<<"a", "b">>), Str(<<"c">>)>>)>>),
     Mapping("dict", <<"x">>, <<Str(<<"a">>)>>),
     Mapping("dict", <<"x">>, <<Str(<<"a", "b">>)>>),
     NamedTuple("Batch", <<"x", "y">>,
                <<Str(<<"a", "b">>), List(<<IntLeaf(1), IntLeaf(2)>>)>>)}

\* The number of samples a tensor or mapping batch holds.
BatchSize(b) ==
    IF b.kind = "tensor" THEN b.shape[1]
    ELSE IF b.vals = <<>> THEN 0
    ELSE Len(Iter(b.vals[1]).items)

EmbPairs == {Tuple(<<IntLeaf(c), IntLeaf(e)>>) : c \in {2, 3}, e \in {1, 2}}

\* embedding_sizes: the declared default None, or a list of pairs.
EmbeddingSizes == {None} \cup {List(ps) : ps \in SeqsOver(EmbPairs, 0, MaxEmb)}

\* Images of shape (1, NumFeatures, 2, 2) and (2, NumFeatures, 1, 1) with
\* elements that are multiples of 4.
Images ==
    {Tensor(<<1, NumFeatures, 2, 2>>, <<a, b, c, d, d, c, b, a>>) :
        a \in {0, 4}, b \in {0, 4}, c \in {0, 8}, d \in {0, 4}}
    \cup {Tensor(<<2, NumFeatures, 1, 1>>, <<a, b, b, 0>>) : a \in {0, 4}, b \in {0, 4}}

\* ----------------------------------------------------------------- actions

Init ==
    /\ obj = None
    /\ op = "import"
    /\ inp = None
    /\ out = None
    /\ calls = <<>>
    /\ pred0 = None

\* A constructor call while no object is held (a behaviour follows one
\* object): it gives the object, or its exception leaves none.
Construct(o, name, arg) ==
    /\ obj = None
    /\ obj' = IF IsRaised(o) THEN None ELSE o
    /\ op' = name
    /\ inp' = arg
    /\ out' = IF IsRaised(o) THEN o ELSE None
    /\ calls' = <<>>
    /\ pred0' = None

Forward(name, x, r) ==
    /\ op' = name
    /\ inp' = x
    /\ out' = r.out
    /\ calls' = r.calls
    /\ UNCHANGED <<obj, pred0>>

NewSequential ==
    \E pre \in Fns, to \in Fns \cup {"to_tensor"}, post \in Fns, a \in BOOLEAN :
        Construct(Sequential_init(pre, to, post, a), "_Sequential.__init__", None)

SequentialForward ==
    /\ obj.kind = "_Sequential"
    /\ \E sample \in RawSamples :
          Forward("_Sequential.forward", sample, Sequential_forward(obj, sample))

NewPreProcessor ==
    \E c \in CollateFns, ps \in Fns, pb \in Fns, a \in BOOLEAN :
        Construct(PreProcessor_init(c, ps, pb, a), "_PreProcessor.__init__", None)

PreProcessorForward ==
    /\ obj.kind = "_PreProcessor"
    /\ \E x \in {List(ss) : ss \in SampleSeqs(0)} \cup TensorBatches :
          /\ obj.apply_per_sample_transform => x.kind = "list"
          /\ Forward("_PreProcessor.forward", x, PreProcessor_forward(obj, x))

NewPostProcessor ==
    \E u \in UncollateFns, pb \in {"id", "inc"}, ps \in {"id", "dbl"}, sf \in {None, Str(<<"save">>)},
       sps \in BOOLEAN :
        Construct(PostProcessor_init(u, pb, ps, sf, sps), "_PostProcessor.__init__", None)

PostProcessorForward ==
    /\ obj.kind = "_PostProcessor"
    /\ \E batch \in TensorBatches \cup MappingBatches :
          Forward("_PostProcessor.forward", batch, PostProcessor_forward(obj, batch))

\* default_uncollate called on its own, outside any pipeline object.
UncollateInputs ==
    TensorBatches \cup MappingBatches \cup NamedTupleBatches \cup TupleBatches
    \cup NestedBatches

DefaultUncollate ==
    \E batch \in UncollateInputs :
        /\ obj = None
        /\ op' = "default_uncollate"
        /\ inp' = batch
        /\ out' = default_uncollate(batch)
        /\ calls' = <<>>
        /\ UNCHANGED <<obj, pred0>>

NewTabularClassifier ==
    \E es \in EmbeddingSizes :
        Construct(TabularClassifier_init(3, 2, es), "TabularClassifier.__init__", es)

NewImageEmbedder ==
    \E e \in {None, IntLeaf(0), IntLeaf(1), IntLeaf(2)}, b \in Backbones,
       p \in {"max", "mean"}, seed \in {0, 1} :
        Construct(ImageEmbedder_init(e, b, p, seed), "ImageEmbedder.__init__", None)

ImageEmbedderForward ==
    /\ obj.kind = "ImageEmbedder"
    /\ \E x \in Images :
          Forward("ImageEmbedder.forward", x, ImageEmbedder_forward(obj, x))

NewTask ==
    \E ps \in Fns, pb \in {"id", "inc"}, m \in ModelFns, qs \in {"id", "dbl"} :
        Construct(Task_init(PreProcessor_init("stack", ps, pb, TRUE), m,
                            PostProcessor_init("default_uncollate", "id", qs, None, FALSE)),
                  "Task.__init__", None)

\* predict on a list of samples; the prediction of a single sample is kept to
\* compare later predictions with.
TaskPredict ==
    /\ obj.kind = "Task"
    /\ \E ss \in SampleSeqs(1) :
          LET r == Task_predict(obj, List(ss))
          IN /\ op' = "Task.predict"
             /\ inp' = List(ss)
             /\ out' = r.out
             /\ calls' = r.calls
             /\ pred0' = IF Len(ss) = 1 THEN [x |-> ss[1], pred |-> r.out] ELSE pred0
             /\ obj' = obj

Next ==
    \/ NewSequential
    \/ SequentialForward
    \/ NewPreProcessor
    \/ PreProcessorForward
    \/ NewPostProcessor
    \/ PostProcessorForward
    \/ DefaultUncollate
    \/ NewTabularClassifier
    \/ NewImageEmbedder
    \/ ImageEmbedderForward
    \/ NewTask
    \/ TaskPredict

Spec == Init /\ [][Next]_vars

\* ------------------------------------------------------------- properties

\* How often callable slot f occurs in call log cs.
CountFn(cs, f) == Cardinality({i \in 1..Len(cs) : cs[i].fn = f})

IsFn(f, c) == c.fn = f

\* C1: a call of _Sequential.forward that raises no tensor assertion calls
\* pre_tensor_transform on the sample, then to_tensor_transform on its result,
\* then post_tensor_transform on that result, each exactly once, and returns
\* post_tensor_transform(to_tensor_transform(pre_tensor_transform(sample))).
C1_SequentialComposition ==
    (op = "_Sequential.forward" /\ ~IsRaised(out)) =>
        /\ Len(calls) = 3
        /\ calls[1] = Call("pre_tensor_transform", inp,
                           ApplyFn(obj.pre_tensor_transform, inp))
        /\ calls[2] = Call("to_tensor_transform", calls[1].ret,
                           ApplyFn(obj.to_tensor_transform, calls[1].ret))
        /\ calls[3] = Call("post_tensor_transform", calls[2].ret,
                           ApplyFn(obj.post_tensor_transform, calls[2].ret))
        /\ out = calls[3].ret
        /\ out = ApplyFn(obj.post_tensor_transform,
                         ApplyFn(obj.to_tensor_transform,
                                 ApplyFn(obj.pre_tensor_transform, inp)))

\* A forward of inc, then dbl, then inc on the number 1: (1 + 1) * 2 + 1 = 5,
\* which no other order of the three gives.
C1_Witness ==
    /\ op = "_Sequential.forward"
    /\ obj.pre_tensor_transform = "inc"
    /\ obj.to_tensor_transform = "dbl"
    /\ obj.post_tensor_transform = "inc"
    /\ inp = IntLeaf(1)
    /\ out = IntLeaf(5)
    /\ Len(calls) = 3

\* C2: _PreProcessor.forward with apply_per_sample_transform on N samples
\* calls per_sample_transform N times, once per sample in input order, then
\* collate_fn once on the N results in that order, then per_batch_transform
\* once on the collated batch, whose result it returns (a collate_fn that
\* raises ends the call there).
C2_PreProcessorOrder ==
    (op = "_PreProcessor.forward" /\ obj.apply_per_sample_transform) =>
        LET n == Len(inp.items)
        IN /\ Len(calls) >= n + 1
           /\ \A i \in 1..n :
                 calls[i] = Call("per_sample_transform", inp.items[i],
                                 ApplyFn(obj.per_sample_transform, inp.items[i]))
           /\ CountFn(calls, "per_sample_transform") = n
           /\ calls[n + 1].fn = "collate_fn"
           /\ calls[n + 1].arg = List([i \in 1..n |-> calls[i].ret])
           /\ calls[n + 1].ret = ApplyCollate(obj.collate_fn, calls[n + 1].arg)
           /\ CountFn(calls, "collate_fn") = 1
           /\ IF IsRaised(calls[n + 1].ret)
              THEN Len(calls) = n + 1 /\ out = calls[n + 1].ret
              ELSE /\ Len(calls) = n + 2
                   /\ calls[n + 2] = Call("per_batch_transform", calls[n + 1].ret,
                                          ApplyFn(obj.per_batch_transform, calls[n + 1].ret))
                   /\ out = calls[n + 2].ret

\* Two different samples, transformed, stacked and transformed as a batch.
C2_Witness ==
    /\ op = "_PreProcessor.forward"
    /\ obj.apply_per_sample_transform
    /\ obj.collate_fn = "stack"
    /\ obj.per_sample_transform = "inc"
    /\ obj.per_batch_transform = "dbl"
    /\ Len(inp.items) = 2
    /\ inp.items[1] # inp.items[2]
    /\ Len(calls) = 4
    /\ out.kind = "tensor"
    /\ out.shape[1] = 2

\* C3: _PostProcessor.forward calls per_batch_transform once on the batch,
\* then uncollate_fn once on its result, then per_sample_transform once on
\* each uncollated sample in order; without a save_fn it returns the
\* per-sample results in that order, as many as there are uncollated samples.
C3_PostProcessorOrder ==
    (op = "_PostProcessor.forward") =>
        /\ Len(calls) >= 2
        /\ calls[1] = Call("per_batch_transform", inp,
                           ApplyFn(obj.per_batch_transform, inp))
        /\ calls[2] = Call("uncollate_fn", calls[1].ret,
                           ApplyUncollate(obj.uncollate_fn, calls[1].ret))
        /\ CountFn(calls, "per_batch_transform") = 1
        /\ CountFn(calls, "uncollate_fn") = 1
        /\ IF calls[2].ret.kind = "list"
           THEN LET u == calls[2].ret.items
                IN /\ Len(calls) >= 2 + Len(u)
                   /\ CountFn(calls, "per_sample_transform") = Len(u)
                   /\ \A i \in 1..Len(u) :
                         calls[2 + i] = Call("per_sample_transform", u[i],
                                             ApplyFn(obj.per_sample_transform, u[i]))
                   /\ obj.save_fn = None =>
                         /\ out.kind = "list"
                         /\ Len(out.items) = Len(u)
                         /\ \A i \in 1..Len(u) : out.items[i] = calls[2 + i].ret
           ELSE CountFn(calls, "per_sample_transform") = 0

\* A batch of two different samples, uncollated by default_uncollate and
\* returned as two different predictions.
C3_Witness ==
    /\ op = "_PostProcessor.forward"
    /\ obj.save_fn = None
    /\ obj.uncollate_fn = "default_uncollate"
    /\ obj.per_batch_transform = "inc"
    /\ obj.per_sample_transform = "dbl"
    /\ out.kind = "list"
    /\ Len(out.items) = 2
    /\ out.items[1] # out.items[2]
    /\ Len(calls) = 4

\* C4: on a tensor batch made by stacking N samples, default_uncollate
\* returns a list of exactly those N samples in order, and stacking the
\* list gives the batch again.
C4_UncollateInvertsStack ==
    (op = "default_uncollate" /\ inp.kind = "tensor") =>
        /\ out.kind = "list"
        /\ \E ss \in SampleSeqs(1) : torch_stack(ss) = inp
        /\ \A ss \in SampleSeqs(1) :
              torch_stack(ss) = inp =>
                  /\ Len(out.items) = Len(ss)
                  /\ \A i \in 1..Len(ss) : out.items[i] = ss[i]
        /\ torch_stack(out.items) = inp

\* A batch of two different vectors taken apart again.
C4_Witness ==
    /\ op = "default_uncollate"
    /\ inp.kind = "tensor"
    /\ inp.shape = <<2, 2>>
    /\ out.kind = "list"
    /\ Len(out.items) = 2
    /\ out.items[1] # out.items[2]
    /\ out.items[1].shape = <<2>>

\* The i-th sample of a mapping batch as C5 describes it: a mapping of the
\* batch's type and keys whose values are the i-th entries of the batch's
\* values.
MappingSample(batch, i) ==
    Mapping(batch.mtype, batch.keys,
            [k \in 1..Len(batch.vals) |-> Iter(batch.vals[k]).items[i]])

\* C5: on a mapping whose values are each a batch of N entries,
\* default_uncollate returns a list of N mappings of the batch's mapping type
\* and keys, the i-th holding for every key the unchanged i-th entry of the
\* batch's value.
C5_MappingEntriesUnchanged ==
    (op = "default_uncollate" /\ inp.kind = "mapping") =>
        /\ out.kind = "list"
        /\ Len(out.items) = BatchSize(inp)
        /\ \A i \in 1..BatchSize(inp) : out.items[i] = MappingSample(inp, i)

\* C6: _PostProcessor.forward with default_uncollate and no save_fn returns,
\* for a batch holding N samples, exactly N predictions, and for a tensor
\* batch the i-th is the per-sample transform of the i-th row of the
\* transformed batch.
C6_OnePredictionPerSample ==
    (/\ op = "_PostProcessor.forward"
     /\ obj.uncollate_fn = "default_uncollate"
     /\ obj.save_fn = None) =>
        /\ out.kind = "list"
        /\ Len(out.items) = BatchSize(inp)
        /\ inp.kind = "tensor" =>
              \A i \in 1..BatchSize(inp) :
                  out.items[i] =
                      ApplyFn(obj.per_sample_transform,
                              Iter(ApplyFn(obj.per_batch_transform, inp)).items[i])

\* C7: with deterministic per-sample callables, the prediction of sample x
\* predicted alone equals the prediction at index 0 of any list of samples
\* that starts with x.
C7_PredictionIndependent ==
    (/\ op = "Task.predict"
     /\ pred0 # None
     /\ inp.items[1] = pred0.x) =>
        /\ out.kind = "list"
        /\ pred0.pred.kind = "list"
        /\ Len(pred0.pred.items) = 1
        /\ Len(out.items) = Len(inp.items)
        /\ out.items[1] = pred0.pred.items[1]

\* x predicted alone, then in a list with a different second sample.
C7_Witness ==
    /\ op = "Task.predict"
    /\ pred0 # None
    /\ Len(inp.items) = 2
    /\ inp.items[1] = pred0.x
    /\ inp.items[2] # inp.items[1]
    /\ obj.model = "rowsum"
    /\ out.kind = "list"
    /\ out.items[1] # out.items[2]

C9_CategoricalConfig ==
    (op = "TabularClassifier.__init__") =>
        LET ps == IF inp = None THEN <<>> ELSE inp.items
            k == Len(ps)
        IN /\ ~IsRaised(out)
           /\ obj.kind = "TabularClassifier"
           /\ obj.model.cat_idxs = List([i \in 1..k |-> IntLeaf(i - 1)])
           /\ obj.model.cat_dims = List([i \in 1..k |-> ps[i].titems[1]])
           /\ obj.model.cat_emb_dim = List([i \in 1..k |-> ps[i].titems[2]])

\* The features ImageEmbedder.forward takes from its backbone's output.
BackboneFeatures(r) == IF r.kind = "tuple" THEN r.titems[Len(r.titems)] ELSE r

\* C10: ImageEmbedder.forward with embedding_dim None returns the backbone's
\* output (the last element of a tuple) unchanged and unpooled; pooling is
\* applied exactly when that output has 4 dimensions and an embedding_dim was
\* given, and the head then maps the pooled features to embedding_dim.
C10_PoolIffEmbeddingDim ==
    (op = "ImageEmbedder.forward") =>
        LET x == BackboneFeatures(calls[1].ret)
            pooled == CountFn(calls, "apply_pool") > 0
        IN /\ calls[1] = Call("backbone", inp, ApplyBackbone(obj.backbone, inp))
           /\ obj.embedding_dim = None => (out = x /\ ~pooled)
           /\ pooled <=> (Len(x.shape) = 4 /\ obj.embedding_dim # None)
           /\ pooled => out.shape = <<x.shape[1], obj.embedding_dim.n>>

\* C11: with assert_contains_tensor, _Sequential.forward raises
\* MisconfigurationException whenever the output of to_tensor_transform
\* contains no tensor, and then post_tensor_transform is not called; without
\* it no check is made and post_tensor_transform is always called.
C11_TensorAssertion ==
    (op = "_Sequential.forward") =>
        /\ Len(calls) >= 2
        /\ calls[2].fn = "to_tensor_transform"
        /\ IF obj.assert_contains_tensor /\ ~contains_any_tensor(calls[2].ret)
           THEN /\ out = Raised("MisconfigurationException")
                /\ CountFn(calls, "post_tensor_transform") = 0
                /\ Len(calls) = 2
           ELSE /\ ~IsRaised(out)
                /\ CountFn(calls, "post_tensor_transform") = 1
                /\ calls[Len(calls)].fn = "post_tensor_transform"
                /\ calls[Len(calls)].arg = calls[2].ret

\* A number that to_tensor_transform leaves a number, under the assertion.
C11_Witness ==
    /\ op = "_Sequential.forward"
    /\ obj.assert_contains_tensor
    /\ obj.to_tensor_transform = "inc"
    /\ inp = IntLeaf(1)
    /\ calls[2].ret = IntLeaf(2)
    /\ out = Raised("MisconfigurationException")
    /\ Len(calls) = 2

\* C12: without apply_per_sample_transform, _PreProcessor.forward calls
\* neither per_sample_transform nor collate_fn: it calls per_batch_transform
\* exactly once, on its input as given, and returns the result.
C12_PerBatchOnly ==
    (op = "_PreProcessor.forward" /\ ~obj.apply_per_sample_transform) =>
        /\ calls = <<Call("per_batch_transform", inp,
                          ApplyFn(obj.per_batch_transform, inp))>>
        /\ CountFn(calls, "per_sample_transform") = 0
        /\ CountFn(calls, "collate_fn") = 0
        /\ out = calls[1].ret

\* A list of two samples that is passed, uncollated, to the per-batch
\* transform of a processor whose collate_fn would have stacked it.
C12_Witness ==
    /\ op = "_PreProcessor.forward"
    /\ ~obj.apply_per_sample_transform
    /\ obj.collate_fn = "stack"
    /\ obj.per_sample_transform = "dbl"
    /\ obj.per_batch_transform = "inc"
    /\ inp.kind = "list"
    /\ Len(inp.items) = 2
    /\ out.kind = "list"
    /\ out # inp
    /\ Len(calls) = 1

\* The batched fields of a named-tuple or plain-sequence batch.
FieldsOf(batch) ==
    CASE batch.kind = "namedtuple" -> batch.elems
      [] batch.kind = "tuple" -> batch.titems
      [] batch.kind = "list" -> batch.items

\* N: the number of entries each field of the batch holds.
EntriesPerField(batch) == Len(Iter(FieldsOf(batch)[1]).items)

\* The i-th sample of a named-tuple batch: the i-th entry of every field.
NamedTupleSample(batch, i) ==
    NamedTuple(batch.ntype, batch.fields,
               [k \in 1..Len(batch.elems) |-> Iter(batch.elems[k]).items[i]])

\* C13: on a named-tuple batch whose fields each hold N entries,
\* default_uncollate returns a list of N named tuples of the same type, field
\* f of the i-th being the i-th entry of the batch's field f; a plain tuple
\* of the same fields is un-collated to the same number N of entries.
C13_NamedTupleSamples ==
    /\ (op = "default_uncollate" /\ inp.kind = "namedtuple") =>
          /\ out.kind = "list"
          /\ Len(out.items) = EntriesPerField(inp)
          /\ \A i \in 1..EntriesPerField(inp) : out.items[i] = NamedTupleSample(inp, i)
    /\ (op = "default_uncollate" /\ inp.kind = "tuple") =>
          /\ out.kind = "list"
          /\ Len(out.items) = EntriesPerField(inp)

\* The values held directly by a container; a tensor holds its entries along
\* dimension 0; strings, numbers and 0-dimensional tensors hold nothing.
Children(v) ==
    CASE v.kind = "tensor" -> IF v.shape = <<>> THEN <<>> ELSE torch_unbind(v).items
      [] v.kind = "mapping" -> v.vals
      [] v.kind = "namedtuple" -> v.elems
      [] v.kind = "list" -> v.items
      [] v.kind = "tuple" -> v.titems
      [] OTHER -> <<>>

\* The number of values in a nested structure, leaves counting one each.
RECURSIVE Size(_)
Size(v) == 1 + SeqSum([i \in 1..Len(Children(v)) |-> Size(Children(v)[i])])

\* The strings occurring as leaves of a nested structure.
RECURSIVE Strings(_)
Strings(v) ==
    IF v.kind = "str" THEN {v}
    ELSE UNION {Strings(Children(v)[i]) : i \in 1..Len(Children(v))}

\* The arguments of the recursive calls default_uncollate(batch) makes itself.
RecursiveArgs(batch) ==
    CASE batch.kind \in {"mapping", "namedtuple"} ->
            IF IsRaised(ZipStar(Children(batch))) THEN {}
            ELSE {ZipStar(Children(batch)).items[i] :
                     i \in 1..Len(ZipStar(Children(batch)).items)}
      [] batch.kind \in {"list", "tuple"} ->
            {Children(batch)[i] : i \in 1..Len(Children(batch))}
      [] OTHER -> {}

\* C14: default_uncollate terminates on every finitely nested batch: each
\* recursive call is on a strictly smaller structure, no string is iterated
\* character by character (every string of the result is a string of the
\* batch), and strings and other non-container leaves are returned unchanged.
C14_StringsAreLeaves ==
    (op = "default_uncollate") =>
        /\ \A a \in RecursiveArgs(inp) : Size(a) < Size(inp)
        /\ Strings(out) \subseteq Strings(inp)
        /\ inp.kind \in {"str", "int"} => out = inp

====
